---- MODULE Spec2Model ----
(***************************************************************************)
(* sidegit: the change-aggregation engine.                                 *)
(*                                                                         *)
(*   - the tree model (tree.go): NewTreeModel, rebuildVisible, MoveUp,     *)
(*     MoveDown, ToggleCollapse, SelectedNode, driven by the control       *)
(*     loop's reposScannedMsg handler (model.go);                          *)
(*   - the status parser: GetStatus, parseOrdinaryEntry, mapStatusByte.    *)
(*                                                                         *)
(* Go strings are sequences of one-character strings; Go slice indices,    *)
(* the cursor and ParentDir keep their 0-based values (-1 for "none").     *)
(***************************************************************************)
EXTENDS Integers, Sequences, FiniteSets, TLC

VARIABLES
    repos,      \* model.repos: the snapshot of the last discovery pass
    nodes,      \* TreeModel.nodes
    visible,    \* TreeModel.visible: 0-based node indices
    cursor,     \* TreeModel.cursor: 0-based offset into visible
    lastOp,     \* which handler or method ran last ("rescan": a build right
                \* after a build from the same repository list; "env": a
                \* step of a command or of the disk; "other": a handler no
                \* claim names)
    out,        \* status parser: the lines of the status command's output
    lineNo,     \* status parser: number of lines consumed so far
    files,      \* status parser: the FileStatus slice built so far
    emitted,    \* status parser: what each consumed line appended to files
    pc,         \* status parser: "idle", "parsing", "done" or "panic"
    disk,       \* discovery: which directories are repositories, which
                \* cannot be listed, where the status command fails
    scanDepth,  \* discovery: Config.ScanDepth
    scanOut,    \* discovery: the repos slice of ScanRepos
    scanIdx,    \* discovery: number of entries of the root consumed so far
    pcScan,     \* discovery: "idle", "root", "entries" or "done"
    dirsNow,    \* watcher: the directories that exist on the disk
    watched,    \* watcher: the directories added to the fsnotify watcher
    now,        \* watcher: the time, in milliseconds
    debounce,   \* watcher: when the debounce timer fires (-1: nil or stopped)
    notified,   \* watcher: number of fileChangedMsg sent to the program
    lastEvent,  \* watcher: when the last event passed the filter (-1: never)
    bursts,     \* watcher: number of bursts of events that passed the filter
    events,     \* watcher: number of events that passed the filter
    changes,    \* watcher: number of changes made on the disk
    lastPath,   \* watcher: the path of the last change on the disk
    pollInterval,   \* control loop: Config.PollInterval
    passes,         \* control loop: the discovery passes in flight, as the
                    \* number of passes in each state ("running", or the
                    \* snapshot the pass has read)
    pollTimers,     \* control loop: number of poll timers that run
    msgFileChanged, \* control loop: number of fileChangedMsg on their way
    editor,         \* control loop: "idle", "running" or "exited"
    diffLoads,      \* control loop: number of loadDiffCmd in flight
    discards,       \* control loop: number of discard commands in flight
    diskRepos,      \* what a discovery pass over the disk as it is produces
    diskChanges,    \* number of changes made to the working trees
    focused,        \* model.focused: "tree" or "diff"
    diffOpen,       \* model.diffOpen
    menuOpen,       \* model.menuOpen
    menuCursor,     \* model.menuCursor
    quit            \* the program has quit

treeVars == <<repos, nodes, visible, cursor>>
parseVars == <<out, lineNo, files, emitted, pc>>
scanVars == <<disk, scanDepth, scanOut, scanIdx, pcScan>>
watchVars == <<dirsNow, watched, now, debounce, notified, lastEvent, bursts, events,
               changes, lastPath>>
uiVars == <<focused, diffOpen, menuOpen, menuCursor>>
cmdVars == <<passes, pollTimers, msgFileChanged, editor, diffLoads, discards>>
envVars == <<diskRepos, diskChanges>>
loopVars == <<pollInterval, cmdVars, envVars, uiVars, quit>>
vars == <<repos, nodes, visible, cursor, lastOp, out, lineNo, files, emitted, pc,
          disk, scanDepth, scanOut, scanIdx, pcScan, watchVars, loopVars>>

\* What the tree operations, the parser, the discovery pass, the watcher and
\* the control loop leave alone.
nonTreeVars == <<parseVars, scanVars, watchVars, loopVars>>
nonParseVars == <<repos, nodes, visible, cursor, lastOp, scanVars, watchVars, loopVars>>
nonScanVars == <<repos, nodes, visible, cursor, lastOp, parseVars, watchVars, loopVars>>
nonWatchVars == <<repos, nodes, visible, cursor, lastOp, parseVars, scanVars, loopVars>>
nonLoopVars == <<parseVars, scanVars, watchVars>>

----------------------------------------------------------------------------
(* Strings *)

\* The characters the model uses, in increasing byte order.
Alphabet ==
    <<"\t", " ", "#", "-", ".", "/", "0", "1", "2", "?", "A", "C", "D", "E",
      "H", "M", "N", "R", "T", "U", "a", "b", "c", "d", "g", "i", "j", "m", "n", "o", "p",
      "r", "s", "t", "u", "x", "y">>

Char == {Alphabet[i] : i \in 1..Len(Alphabet)}

\* The byte order of a character.
Ord(c) == CHOOSE i \in 1..Len(Alphabet) : Alphabet[i] = c

\* Go's s < t on strings: byte-wise lexicographic order.
StrLess(s, t) ==
    \E k \in 1..(Len(t)) :
        /\ \A j \in 1..(k - 1) : j <= Len(s) /\ s[j] = t[j]
        /\ \/ k = Len(s) + 1
           \/ k <= Len(s) /\ Ord(s[k]) < Ord(t[k])

Max(a, b) == IF a > b THEN a ELSE b

\* s[from:to] of a 1-based sequence, both ends inclusive.
Slice(s, from, to) == [i \in 1..Max(0, to - from + 1) |-> s[from + i - 1]]

\* The positions of character c in s.
Positions(s, c) == {i \in 1..Len(s) : s[i] = c}

SetMax(S) == CHOOSE x \in S : \A y \in S : y <= x
SetMin(S) == CHOOSE x \in S : \A y \in S : x <= y

\* strings.Split(s, sep) for a one-character separator.
RECURSIVE Split(_, _)
Split(s, sep) ==
    IF Positions(s, sep) = {} THEN <<s>>
    ELSE LET p == SetMin(Positions(s, sep))
         IN <<Slice(s, 1, p - 1)>> \o Split(Slice(s, p + 1, Len(s)), sep)

\* strings.Join(parts, sep) for a one-character separator.
RECURSIVE Join(_, _)
Join(parts, sep) ==
    IF Len(parts) = 0 THEN <<>>
    ELSE IF Len(parts) = 1 THEN parts[1]
    ELSE parts[1] \o <<sep>> \o Join(Tail(parts), sep)

\* sort.Strings as an insertion of each element into the sorted prefix.
RECURSIVE InsertSorted(_, _)
InsertSorted(sorted, s) ==
    IF sorted = <<>> THEN <<s>>
    ELSE IF StrLess(s, Head(sorted)) THEN <<s>> \o sorted
    ELSE <<Head(sorted)>> \o InsertSorted(Tail(sorted), s)

RECURSIVE SortStrings(_)
SortStrings(ss) ==
    IF ss = <<>> THEN <<>>
    ELSE InsertSorted(SortStrings(Slice(ss, 1, Len(ss) - 1)), ss[Len(ss)])

\* filepath.Dir of a clean relative path: all before the last "/", or ".".
FilepathDir(path) ==
    IF Positions(path, "/") = {} THEN <<".">>
    ELSE Slice(path, 1, SetMax(Positions(path, "/")) - 1)

----------------------------------------------------------------------------
(* Bounds and the discovery results the model draws from *)

\* The most FileStatus records one discovery result holds, over all its repos.
MaxFiles == 2

\* The most lines of status output one parser run reads.
MaxLines == 2

FileStatus(path, status, staged) ==
    [Path |-> path, Status |-> status, IsStaged |-> staged]

\* A nil *FileStatus.
NoFile == [Path |-> <<>>, Status |-> "", IsStaged |-> FALSE]

README_md == <<"R", "E", "A", "D", "M", "E", ".", "m", "d">>
src_main_go == <<"s", "r", "c", "/", "m", "a", "i", "n", ".", "g", "o">>
src_x == <<"s", "r", "c", "/", "x">>
src_a_y == <<"s", "r", "c", "/", "a", "/", "y">>
src_b_y == <<"s", "r", "c", "-", "b", "/", "y">>

\* The files a status run may report, in the order it reports them.
StatusOrder ==
    << FileStatus(README_md, "M", FALSE),
       FileStatus(src_x, "D", TRUE),
       FileStatus(src_a_y, "M", TRUE),
       FileStatus(src_b_y, "?", FALSE),
       FileStatus(src_main_go, "A", FALSE) >>

\* The elements of seq at the positions in S, in their order in seq.
RECURSIVE SubSeqAt(_, _)
SubSeqAt(seq, S) ==
    IF S = {} THEN <<>>
    ELSE LET m == SetMax(S) IN SubSeqAt(seq, S \ {m}) \o <<seq[m]>>

\* The file lists of n entries a repository snapshot may hold.
FileLists(n) ==
    {SubSeqAt(StatusOrder, S) :
        S \in {T \in SUBSET (1..Len(StatusOrder)) : Cardinality(T) = n}}

Repo(relPath, fs) == [RelPath |-> relPath, Files |-> fs]

app == <<"a", "p", "p">>
proj == <<"p", "r", "o", "j">>

\* What a discovery pass may deliver: at most two repositories, sorted by
\* RelPath (scanner.go sorts them), with at most MaxFiles files in all.
ScanResults ==
    {<<>>}
    \cup {<<Repo(name, fs)>> :
            name \in {app, proj}, fs \in UNION {FileLists(n) : n \in 0..MaxFiles}}
    \cup UNION {{<<Repo(app, fa), Repo(proj, fp)>> :
                    fa \in FileLists(n[1]), fp \in FileLists(n[2])} :
                n \in {m \in (0..MaxFiles) \X (0..MaxFiles) : m[1] + m[2] <= MaxFiles}}

----------------------------------------------------------------------------
(* tree.go: NewTreeModel *)

RepoNode(repo, i) ==
    [Kind |-> "repo", Repo |-> repo.RelPath, File |-> NoFile, DirPath |-> <<>>,
     RepoIndex |-> i, Depth |-> 0, Collapsed |-> FALSE, ParentDir |-> -1]

DirNode(repo, i, segment, depth, parentIdx) ==
    [Kind |-> "dir", Repo |-> repo.RelPath, File |-> NoFile, DirPath |-> segment,
     RepoIndex |-> i, Depth |-> depth, Collapsed |-> FALSE, ParentDir |-> parentIdx]

FileNode(repo, i, f, depth, parentIdx) ==
    [Kind |-> "file", Repo |-> repo.RelPath, File |-> f, DirPath |-> <<>>,
     RepoIndex |-> i, Depth |-> depth, Collapsed |-> FALSE, ParentDir |-> parentIdx]

\* A bucket key that is the first segment of the path only.
FileDirTop(f) ==
    LET parts == Split(f.Path, "/") IN IF Len(parts) = 1 THEN <<>> ELSE parts[1]

\* The bucket key of a file: filepath.Dir(f.Path), with "." mapped to "".
FileDir(f) ==
    LET dir == FilepathDir(f.Path) IN IF dir = <<".">> THEN <<>> ELSE dir

\* dirFiles: dir -> the files directly in it, in the order of fs.
DirFiles(fs) ==
    [dir \in {FileDir(fs[j]) : j \in 1..Len(fs)} |->
        SelectSeq(fs, LAMBDA f : FileDir(f) = dir)]

\* dirSet: every directory that owns files, and every ancestor of one.
DirSet(dirFiles) ==
    UNION {IF dir = <<>> THEN {}
           ELSE LET parts == Split(dir, "/")
                IN {Join(Slice(parts, 1, k), "/") : k \in 1..Len(parts)} :
           dir \in DOMAIN dirFiles}

\* The orders in which ranging over a Go map with key set S may visit it.
MapOrders(S) ==
    {o \in [1..Cardinality(S) -> S] : \A a, b \in DOMAIN o : a # b => o[a] # o[b]}

\* allDirs left in the order the map yields the keys.
AllDirsUnsorted(order) == order

\* allDirs: the keys of dirSet in the order the map yields them, then sorted.

AllDirs(order) == SortStrings(order)

\* Every directory at depth 1.
DirDepthFlat(parts) == 1

\* The depth addDir gives a directory of these path segments.

DirDepth(parts) == Len(parts)

\* The file nodes appended for the files of one bucket.
FileNodes(repo, i, fs, depth, parentIdx) ==
    [j \in 1..Len(fs) |-> FileNode(repo, i, fs[j], depth, parentIdx)]

\* addDir: st is [nodes, idx], idx being dirNodeIdx.
RECURSIVE AddDir(_, _, _, _, _, _)
AddDir(st, dir, repo, i, repoIdx, dirFiles) ==
    IF dir \in DOMAIN st.idx THEN st
    ELSE LET parts == Split(dir, "/")
             depth == DirDepth(parts)
             parentDir == Join(Slice(parts, 1, Len(parts) - 1), "/")
             st1 == IF Len(parts) > 1
                    THEN AddDir(st, parentDir, repo, i, repoIdx, dirFiles)
                    ELSE st
             parentIdx == IF Len(parts) > 1 THEN st1.idx[parentDir] ELSE repoIdx
             dirIdx == Len(st1.nodes)
             own == IF dir \in DOMAIN dirFiles THEN dirFiles[dir] ELSE <<>>
         IN [nodes |-> st1.nodes
                        \o <<DirNode(repo, i, parts[Len(parts)], depth, parentIdx)>>
                        \o FileNodes(repo, i, own, depth + 1, dirIdx),
             idx |-> (dir :> dirIdx) @@ st1.idx]

\* for _, dir := range allDirs { addDir(dir) }
RECURSIVE AddDirs(_, _, _, _, _, _)
AddDirs(st, allDirs, repo, i, repoIdx, dirFiles) ==
    IF allDirs = <<>> THEN st
    ELSE AddDirs(AddDir(st, Head(allDirs), repo, i, repoIdx, dirFiles),
                 Tail(allDirs), repo, i, repoIdx, dirFiles)

\* One iteration of the loop over repos; i is the 0-based repository index and
\* order the order in which the range over dirSet yields its keys.
BuildRepo(ns, repo, i, order) ==
    LET repoIdx == Len(ns)
        dirFiles == DirFiles(repo.Files)
        st == AddDirs([nodes |-> ns \o <<RepoNode(repo, i)>>, idx |-> <<>>],
                      AllDirs(order), repo, i, repoIdx, dirFiles)
        rootFiles == IF <<>> \in DOMAIN dirFiles THEN dirFiles[<<>>] ELSE <<>>
    IN st.nodes \o FileNodes(repo, i, rootFiles, 1, repoIdx)

RECURSIVE BuildNodes(_, _, _, _)
BuildNodes(ns, rs, orders, i) ==
    IF i >= Len(rs) THEN ns
    ELSE BuildNodes(BuildRepo(ns, rs[i + 1], i, orders[i + 1]), rs, orders, i + 1)

\* The map iteration orders one build over rs may see, one per repository.
RECURSIVE BuildOrders(_)
BuildOrders(rs) ==
    IF rs = <<>> THEN {<<>>}
    ELSE {<<o>> \o rest :
            o \in MapOrders(DirSet(DirFiles(Head(rs).Files))),
            rest \in BuildOrders(Tail(rs))}

----------------------------------------------------------------------------
(* tree.go: rebuildVisible, isAncestorExpanded and the navigation methods;  *)
(* a TreeModel is [nodes, visible, cursor]                                  *)

\* A check of the direct parent alone.
isParentExpanded(ns, n) ==
    n.ParentDir < 0 \/ ~ns[n.ParentDir + 1].Collapsed

RECURSIVE isAncestorExpanded(_, _)
isAncestorExpanded(ns, n) ==
    IF n.ParentDir < 0 THEN TRUE
    ELSE LET parent == ns[n.ParentDir + 1]
         IN IF parent.Collapsed THEN FALSE ELSE isAncestorExpanded(ns, parent)

\* The loop of rebuildVisible from node index i on.
RECURSIVE VisibleFrom(_, _)
VisibleFrom(ns, i) ==
    IF i >= Len(ns) THEN <<>>
    ELSE LET n == ns[i + 1]
             keep == n.Kind = "repo" \/ isAncestorExpanded(ns, n)
         IN (IF keep THEN <<i>> ELSE <<>>) \o VisibleFrom(ns, i + 1)

\* The clamp that ends rebuildVisible.
ClampCursor(c, len) == IF c >= len THEN Max(0, len - 1) ELSE c

\* A rebuild of the visible list that moves the cursor to the first row.
rebuildVisibleFromTop(tm) ==
    [nodes |-> tm.nodes, visible |-> VisibleFrom(tm.nodes, 0), cursor |-> 0]

rebuildVisible(tm) ==
    LET vis == VisibleFrom(tm.nodes, 0)
    IN [nodes |-> tm.nodes, visible |-> vis,
        cursor |-> ClampCursor(tm.cursor, Len(vis))]

\* NewTreeModel: a fresh TreeModel (cursor 0) over the built nodes.
NewTreeModel(rs, orders) ==
    rebuildVisible([nodes |-> BuildNodes(<<>>, rs, orders, 0),
                    visible |-> <<>>, cursor |-> 0])

TM == [nodes |-> nodes, visible |-> visible, cursor |-> cursor]

\* SelectedNode as the 0-based index of the node it points to, -1 for nil.
SelectedNode(tm) ==
    IF Len(tm.visible) = 0 \/ tm.cursor < 0 \/ tm.cursor >= Len(tm.visible)
    THEN -1
    ELSE tm.visible[tm.cursor + 1]

\* MoveUp wrapping round to the last row.
MoveUpWraps(tm) == IF tm.cursor > 0 THEN tm.cursor - 1 ELSE Len(tm.visible) - 1

MoveUpCursor(tm) == IF tm.cursor > 0 THEN tm.cursor - 1 ELSE tm.cursor

\* MoveDown without its bound.
MoveDownUnclamped(tm) == tm.cursor + 1

MoveDownCursor(tm) ==
    IF tm.cursor < Len(tm.visible) - 1 THEN tm.cursor + 1 ELSE tm.cursor

\* ToggleCollapse without its test of the node's kind.
ToggleAnyKind(tm) ==
    LET sel == SelectedNode(tm)
    IN IF sel = -1 THEN tm
       ELSE rebuildVisible(
                [tm EXCEPT !.nodes[sel + 1].Collapsed = ~tm.nodes[sel + 1].Collapsed])

ToggleCollapseTM(tm) ==
    LET sel == SelectedNode(tm)
    IN IF sel = -1 THEN tm
       ELSE IF tm.nodes[sel + 1].Kind \in {"repo", "dir"}
       THEN rebuildVisible(
                [tm EXCEPT !.nodes[sel + 1].Collapsed = ~tm.nodes[sel + 1].Collapsed])
       ELSE tm

----------------------------------------------------------------------------
(* scanner.go: ScanRepos, isGitRepo, buildRepo *)

\* The largest Config.ScanDepth a discovery pass is run with.
MaxScanDepth == 3

\* The levels below the root ScanRepos descends: its two nested loops.
ScanLevels == 2

\* The absolute path of the scan root.
RootAbs == <<"/", "r">>

dash_b == <<"-", "b">>
dot_d == <<".", "d">>
src == <<"s", "r", "c">>
cmd == <<"c", "m", "d">>
x_file == <<"x">>

\* The directories below the scan root, each the sequence of names that leads
\* to it from the root (the root is <<>>).
Dirs ==
    {<<>>, <<dash_b>>, <<dot_d>>, <<app>>, <<app, dot_d>>, <<app, src>>,
     <<app, src, cmd>>}

DirEntry(name, isDir) == [Name |-> name, IsDir |-> isDir]

\* os.ReadDir of a directory that can be listed: its entries sorted by name.
ReadDir(dir) ==
    CASE dir = <<>> ->
            <<DirEntry(dash_b, TRUE), DirEntry(dot_d, TRUE), DirEntry(app, TRUE),
              DirEntry(x_file, FALSE)>>
      [] dir = <<app>> -> <<DirEntry(dot_d, TRUE), DirEntry(src, TRUE)>>
      [] dir = <<app, src>> -> <<DirEntry(cmd, TRUE)>>
      [] OTHER -> <<>>

\* The states of the disk a pass may run on: any set of directories holds a
\* metadata directory; at most one directory cannot be listed; the status
\* command fails in at most one.
Disks ==
    [repos : SUBSET Dirs,
     unlistable : {{}, {<<>>}, {<<dash_b>>}, {<<app>>}},
     statusFails : {{}, {<<>>}, {<<app>>}, {<<app, src>>}}]

NoDisk == [repos |-> {}, unlistable |-> {}, statusFails |-> {}]

\* filepath.Join(root, names...): the absolute path of a directory.
AbsPath(dir) ==
    IF dir = <<>> THEN RootAbs ELSE RootAbs \o <<"/">> \o Join(dir, "/")

\* filepath.Rel(root, repoPath).
FilepathRel(dir) == IF dir = <<>> THEN <<".">> ELSE Join(dir, "/")

isGitRepo(dir) == dir \in disk.repos

\* What GetStatus returns for a repository whose status command succeeds.
StatusFiles == <<FileStatus(README_md, "M", FALSE)>>

\* buildRepo: the display path is the path relative to the root, and the
\* absolute path for the root itself; the error of GetStatus is dropped, its
\* files are nil then.  (Branch is left out: nothing here reads it.)
buildRepo(dir) ==
    LET rel == FilepathRel(dir)
    IN [Path |-> AbsPath(dir),
        RelPath |-> IF rel = <<>> \/ rel = <<".">> THEN AbsPath(dir) ELSE rel,
        Files |-> IF dir \in disk.statusFails THEN <<>> ELSE StatusFiles]

\* A pass that leaves out the repository whose status command fails.
AppendRepoUnlessStatusFails(rs, dir) ==
    IF dir \in disk.statusFails THEN rs ELSE Append(rs, buildRepo(dir))

\* repos = append(repos, buildRepo(root, dir)).
AppendRepo(rs, dir) == Append(rs, buildRepo(dir))

IsHidden(name) == name[1] = "."

\* The inner loop of ScanRepos over the entries of one subdirectory.
RECURSIVE ScanDeep(_, _, _)
ScanDeep(rs, sub, subEntries) ==
    IF subEntries = <<>> THEN rs
    ELSE LET subEntry == Head(subEntries)
             deep == Append(sub, subEntry.Name)
             rs1 == IF ~subEntry.IsDir \/ IsHidden(subEntry.Name) THEN rs
                    ELSE IF isGitRepo(deep) THEN AppendRepo(rs, deep)
                    ELSE rs
         IN ScanDeep(rs1, sub, Tail(subEntries))

\* One iteration of the outer loop of ScanRepos; a subdirectory that cannot
\* be listed is left after the check of the subdirectory itself.
ScanSub(rs, entry) ==
    IF ~entry.IsDir \/ IsHidden(entry.Name) THEN rs
    ELSE LET sub == <<entry.Name>>
             rs1 == IF isGitRepo(sub) THEN AppendRepo(rs, sub) ELSE rs
         IN IF sub \in disk.unlistable THEN rs1
            ELSE ScanDeep(rs1, sub, ReadDir(sub))

\* The comparison ScanRepos sorts with.
RepoLess(a, b) ==
    IF a.RelPath = <<".">> THEN TRUE
    ELSE IF b.RelPath = <<".">> THEN FALSE
    ELSE StrLess(a.RelPath, b.RelPath)

RECURSIVE InsertRepo(_, _)
InsertRepo(sorted, r) ==
    IF sorted = <<>> THEN <<r>>
    ELSE IF RepoLess(r, Head(sorted)) THEN <<r>> \o sorted
    ELSE <<Head(sorted)>> \o InsertRepo(Tail(sorted), r)

\* sort.Slice(repos, ...): the display paths of a pass are distinct and none
\* is ".", so RepoLess orders them totally and the result is unique.
RECURSIVE SortRepos(_)
SortRepos(rs) ==
    IF rs = <<>> THEN <<>>
    ELSE InsertRepo(SortRepos(Tail(rs)), Head(rs))

\* ScanRepos up to the listing of the root: the root itself, then
\* os.ReadDir(root), whose failure returns what was found.
ScanRoot ==
    /\ pcScan = "root"
    /\ scanOut' = IF isGitRepo(<<>>) THEN AppendRepo(<<>>, <<>>) ELSE <<>>
    /\ pcScan' = IF <<>> \in disk.unlistable THEN "done" ELSE "entries"
    /\ UNCHANGED <<disk, scanDepth, scanIdx>>
    /\ UNCHANGED nonScanVars

\* ScanRepos, one iteration of the loop over the entries of the root.
ScanEntry ==
    /\ pcScan = "entries" /\ scanIdx < Len(ReadDir(<<>>))
    /\ scanOut' = ScanSub(scanOut, ReadDir(<<>>)[scanIdx + 1])
    /\ scanIdx' = scanIdx + 1
    /\ UNCHANGED <<disk, scanDepth, pcScan>>
    /\ UNCHANGED nonScanVars

\* ScanRepos after the loop: the sort and the return.
ScanReturn ==
    /\ pcScan = "entries" /\ scanIdx = Len(ReadDir(<<>>))
    /\ scanOut' = SortRepos(scanOut)
    /\ pcScan' = "done"
    /\ UNCHANGED <<disk, scanDepth, scanIdx>>
    /\ UNCHANGED nonScanVars

\* No discovery pass is modelled.
ScanIdle ==
    /\ disk = NoDisk
    /\ scanDepth = 1
    /\ scanOut = <<>>
    /\ scanIdx = 0
    /\ pcScan = "idle"

----------------------------------------------------------------------------
(* main.go: watchFiles, addWatchPaths, isGitInternalPath *)

\* time.AfterFunc(100*time.Millisecond, ...): the debounce delay.
DebounceMs == 100

\* The time the watcher is followed for, and the most changes made on disk.
MaxTime == 400
MaxChanges == 4

\* How much time passes in one step.
Steps == {20, 50}

dot_git == <<".", "g", "i", "t">>
HEAD == <<"H", "E", "A", "D">>

tmp == <<"t", "m", "p">>

\* The directory created after startup.
NewDir == <<app, tmp>>

\* The disk the watcher runs on: the root and app are repositories.
WatchDisk == [repos |-> {<<>>, <<app>>}, unlistable |-> {}, statusFails |-> {}]

\* The paths changes are made at, each the names from the root: files of the
\* working trees at every depth, a file in the directory created after
\* startup, the head reference of both repositories, and the metadata
\* directory of app itself.
ChangePaths ==
    {<<x_file>>, <<app, x_file>>, <<app, src, x_file>>, <<app, src, cmd, x_file>>,
     Append(NewDir, x_file), NewDir,
     <<dot_git, HEAD>>, <<app, dot_git, HEAD>>, <<app, dot_git>>}

\* filepath.Dir and filepath.Base of a path given by its names.
PathDir(path) == SubSeq(path, 1, Len(path) - 1)
PathBase(path) == path[Len(path)]

\* The inner loop of addWatchPaths: the non-hidden directories of sub.
RECURSIVE WatchDeep(_, _)
WatchDeep(sub, subEntries) ==
    IF subEntries = <<>> THEN {}
    ELSE LET subEntry == Head(subEntries)
         IN (IF ~subEntry.IsDir \/ IsHidden(subEntry.Name) THEN {}
             ELSE {Append(sub, subEntry.Name)})
            \cup WatchDeep(sub, Tail(subEntries))

\* The outer loop of addWatchPaths.
RECURSIVE WatchSubs(_)
WatchSubs(entries) ==
    IF entries = <<>> THEN {}
    ELSE LET entry == Head(entries)
         IN (IF ~entry.IsDir \/ IsHidden(entry.Name) THEN {}
             ELSE {<<entry.Name>>} \cup WatchDeep(<<entry.Name>>, ReadDir(<<entry.Name>>)))
            \cup WatchSubs(Tail(entries))

\* addWatchPaths: the root, its non-hidden subdirectories and theirs.
addWatchPaths == {<<>>} \cup WatchSubs(ReadDir(<<>>))

\* isGitInternalPath: the head reference is let through; any other path with
\* a component named .git is internal.
isGitInternalPath(path) ==
    IF Len(path) >= 2 /\ PathBase(PathDir(path)) = dot_git /\ PathBase(path) = HEAD
    THEN FALSE
    ELSE \E k \in 1..Len(path) : path[k] = dot_git

\* fsnotify reports a change of an entry of a watched directory, and of no
\* other: a watch is not recursive.
Observed(path) == PathDir(path) \in watched

\* A timer that is kept when an event arrives while it runs.
KeepTimer(timer, t) == IF timer # -1 THEN timer ELSE t + DebounceMs

\* debounce.Stop() and debounce = time.AfterFunc(100ms, ...): the timer the
\* watcher holds after an event that passed the filter at time t.
RestartTimer(timer, t) == t + DebounceMs

\* The timer has reached its time and has not fired yet.
TimerDue == debounce # -1 /\ now >= debounce

\* A change on the disk at some path and, when fsnotify reports it, the
\* iteration of the loop of watchFiles that receives the event.
FsChange ==
    \E path \in ChangePaths :
        /\ ~TimerDue
        /\ changes < MaxChanges
        /\ PathDir(path) \in dirsNow
        /\ dirsNow' = IF path = NewDir THEN dirsNow \cup {NewDir} ELSE dirsNow
        /\ changes' = changes + 1
        /\ lastPath' = path
        /\ IF Observed(path) /\ ~isGitInternalPath(path)
           THEN /\ debounce' = RestartTimer(debounce, now)
                /\ lastEvent' = now
                /\ events' = events + 1
                /\ bursts' = IF lastEvent = -1 \/ now - lastEvent >= DebounceMs
                             THEN bursts + 1 ELSE bursts
           ELSE UNCHANGED <<debounce, lastEvent, events, bursts>>
        /\ UNCHANGED <<watched, now, notified>>
        /\ UNCHANGED nonWatchVars

\* The function of the timer runs: p.Send(fileChangedMsg{}).
TimerFires ==
    /\ TimerDue
    /\ notified' = notified + 1
    /\ debounce' = -1
    /\ UNCHANGED <<dirsNow, watched, now, lastEvent, bursts, events, changes, lastPath>>
    /\ UNCHANGED nonWatchVars

\* Time passes, up to the time of the timer at most.
TimePasses ==
    \E d \in Steps :
        /\ ~TimerDue
        /\ now + d <= MaxTime
        /\ now' = IF debounce # -1 /\ now + d > debounce THEN debounce ELSE now + d
        /\ UNCHANGED <<dirsNow, watched, debounce, notified, lastEvent, bursts, events,
                       changes, lastPath>>
        /\ UNCHANGED nonWatchVars

\* No watcher is modelled.
WatchIdle ==
    /\ dirsNow = {}
    /\ watched = {}
    /\ now = 0
    /\ debounce = -1
    /\ notified = 0
    /\ lastEvent = -1
    /\ bursts = 0
    /\ events = 0
    /\ changes = 0
    /\ lastPath = <<>>

----------------------------------------------------------------------------
(* model.go: the control loop, its commands in flight and the disk *)

\* The most commands and messages in flight at a time (discovery passes,
\* diff loads, discard commands, fileChangedMsg), and the most changes made
\* to the working trees.
MaxInFlight == 2
MaxDiskChanges == 2

\* The values of Config.PollInterval, in seconds.
PollIntervals == {0, 5}

\* What a discovery pass produces on the states the disk goes through: one
\* repository with one changed file, or with two, one of them in a directory.
LoopDisks ==
    {<<Repo(app, <<FileStatus(README_md, "M", FALSE)>>)>>,
     <<Repo(app, <<FileStatus(README_md, "M", FALSE), FileStatus(src_x, "D", TRUE)>>)>>}

\* A pass in flight: ScanRepos has not read the disk yet, or it has and
\* holds the snapshot its reposScannedMsg will carry.
Running == [read |-> FALSE, snap |-> <<>>]
HasRead(rs) == [read |-> TRUE, snap |-> rs]
PassStates == {Running} \cup {HasRead(rs) : rs \in LoopDisks}

NoPasses == [ps \in PassStates |-> 0]

\* The tree and the parser before anything ran.
TreeIdle ==
    /\ repos = <<>>
    /\ nodes = <<>>
    /\ visible = <<>>
    /\ cursor = 0
    /\ lastOp = "init"

ParseIdle ==
    /\ out = <<>>
    /\ lineNo = 0
    /\ files = <<>>
    /\ emitted = <<>>
    /\ pc = "idle"

\* No control loop is modelled beyond its tree operations.
LoopIdle ==
    /\ pollInterval = 0
    /\ passes = NoPasses
    /\ pollTimers = 0
    /\ msgFileChanged = 0
    /\ editor = "idle"
    /\ diffLoads = 0
    /\ discards = 0
    /\ diskRepos = <<>>
    /\ diskChanges = 0
    /\ focused = "tree"
    /\ diffOpen = FALSE
    /\ menuOpen = FALSE
    /\ menuCursor = 0
    /\ quit = FALSE

----------------------------------------------------------------------------
(* The status command's output: the lines the parser is run on *)

\* One line of status output with what the status command meant by it: tag
\* is its shape, xy its marker field, path the path of the entry (for a
\* rename or copy the new path), orig the original path of a rename or copy,
\* and pathFirst whether a rename line carries path<TAB>orig (as the status
\* command prints it) or orig<TAB>path (as the comment in parseOrdinaryEntry
\* has it).
Line(tag, xy, path, orig, pathFirst) ==
    [tag |-> tag, xy |-> xy, path |-> path, orig |-> orig, pathFirst |-> pathFirst]

a_b == <<"a", " ", "b">>
new_n == <<"n">>
new_n_x == <<"n", " ", "x">>
old_o == <<"o">>

\* The six fields between the marker field and the path of an entry:
\* sub, mH, mI, mW, hH, hI.
MidFields == << <<"N">>, <<"0">>, <<"0">>, <<"0">>, <<"0">>, <<"0">> >>

\* The text of a line, as the status command writes it.
Render(l) ==
    CASE l.tag = "ordinary" ->
            Join(<< <<"1">>, l.xy >> \o MidFields \o <<l.path>>, " ")
      [] l.tag = "rename" ->
            Join(<< <<"2">>, l.xy >> \o MidFields \o << <<"R", "0">> >>, " ")
               \o <<" ">>
               \o (IF l.pathFirst THEN l.path \o <<"\t">> \o l.orig
                   ELSE l.orig \o <<"\t">> \o l.path)
      [] l.tag = "untracked" -> <<"?", " ">> \o l.path
      [] l.tag = "header" -> <<"#", " ", "b">>
      [] l.tag = "unmerged" ->
            Join(<< <<"u">>, l.xy >> \o MidFields \o <<l.path>>, " ")
      [] l.tag = "truncated" -> Join(<< <<"1">>, l.xy, l.path >>, " ")
      [] l.tag = "shortxy" ->
            Join(<< <<"1">>, l.xy >> \o MidFields \o <<l.path>>, " ")
      [] OTHER -> <<>>

\* The lines a status output is made of.
LinePool ==
    {Line("ordinary", <<x, y>>, src_x, <<>>, TRUE) :
        x \in {".", "M", "A"}, y \in {".", "M", "D", "T"}}
    \cup {Line("ordinary", xy, a_b, <<>>, TRUE) : xy \in {<<".", "M">>, <<"C", ".">>}}
    \cup {Line("rename", xy, path, old_o, pathFirst) :
            xy \in {<<"R", ".">>, <<"R", "M">>}, path \in {new_n, new_n_x},
            pathFirst \in BOOLEAN}
    \cup {Line("untracked", <<>>, path, <<>>, TRUE) : path \in {src_x, a_b, old_o}}
    \cup {Line("header", <<>>, <<>>, <<>>, TRUE),
          Line("blank", <<>>, <<>>, <<>>, TRUE),
          Line("unmerged", <<"U", "U">>, src_x, <<>>, TRUE),
          Line("truncated", <<".", "M">>, src_x, <<>>, TRUE),
          Line("shortxy", <<"M">>, src_x, <<>>, TRUE)}

\* The status outputs of at most n lines.
RECURSIVE StatusOutputs(_)
StatusOutputs(n) ==
    IF n = 0 THEN {<<>>}
    ELSE LET shorter == StatusOutputs(n - 1)
         IN shorter \cup {Append(o, l) : o \in {p \in shorter : Len(p) = n - 1},
                                         l \in LinePool}

----------------------------------------------------------------------------
(* The status parser: GetStatus, parseOrdinaryEntry, mapStatusByte *)

IsSpace(c) == c \in {" ", "\t"}

\* strings.TrimSpace
RECURSIVE TrimSpace(_)
TrimSpace(s) ==
    IF s = <<>> THEN s
    ELSE IF IsSpace(s[1]) THEN TrimSpace(Tail(s))
    ELSE IF IsSpace(s[Len(s)]) THEN TrimSpace(Slice(s, 1, Len(s) - 1))
    ELSE s

\* strings.HasPrefix
HasPrefix(s, prefix) ==
    Len(s) >= Len(prefix) /\ Slice(s, 1, Len(prefix)) = prefix

\* strings.Fields: the maximal runs of non-space characters.
RECURSIVE Fields(_)
Fields(s) ==
    IF s = <<>> THEN <<>>
    ELSE IF IsSpace(s[1]) THEN Fields(Tail(s))
    ELSE LET spaces == {i \in 1..Len(s) : IsSpace(s[i])}
             end == IF spaces = {} THEN Len(s) ELSE SetMin(spaces) - 1
         IN <<Slice(s, 1, end)>> \o Fields(Slice(s, end + 1, Len(s)))

\* strings.SplitN(s, sep, 2) for a one-character separator.
SplitN2(s, sep) ==
    IF Positions(s, sep) = {} THEN <<s>>
    ELSE LET p == SetMin(Positions(s, sep))
         IN <<Slice(s, 1, p - 1), Slice(s, p + 1, Len(s))>>

mapStatusByte(b) ==
    CASE b = "M" -> "M"
      [] b = "A" -> "A"
      [] b = "D" -> "D"
      [] b = "R" -> "R"
      [] b = "C" -> "C"
      [] OTHER -> "M"

\* The path parseOrdinaryEntry takes from the fields of a line.
EntryPath(fields) ==
    LET lastField == fields[Len(fields)]
    IN IF fields[1] = <<"2">>
       THEN LET parts == SplitN2(lastField, "\t")
            IN IF Len(parts) = 2 THEN parts[2] ELSE lastField
       ELSE lastField

\* The staged change shown before the unstaged one.
EntryStatusStagedFirst(path, stagedCode, unstagedCode) ==
    IF stagedCode # "." THEN <<FileStatus(path, mapStatusByte(stagedCode), TRUE)>>
    ELSE IF unstagedCode # "."
    THEN <<FileStatus(path, mapStatusByte(unstagedCode), FALSE)>>
    ELSE <<>>

\* The end of parseOrdinaryEntry: the unstaged change if there is one, else
\* the staged one, else nil (the empty sequence).
EntryStatus(path, stagedCode, unstagedCode) ==
    IF unstagedCode # "." THEN <<FileStatus(path, mapStatusByte(unstagedCode), FALSE)>>
    ELSE IF stagedCode # "."
    THEN <<FileStatus(path, mapStatusByte(stagedCode), TRUE)>>
    ELSE <<>>

\* parseOrdinaryEntry indexes xy[0] and xy[1] once the line has 9 fields: it
\* panics (index out of range) when the marker field has fewer than 2 bytes.
parseOrdinaryEntryPanics(line) ==
    LET fields == Fields(line)
    IN Len(fields) >= 9 /\ Len(fields[2]) < 2

\* parseOrdinaryEntry where it returns: nil is <<>>, a *FileStatus is <<fs>>.
parseOrdinaryEntry(line) ==
    LET fields == Fields(line)
    IN IF Len(fields) < 9 THEN <<>>
       ELSE EntryStatus(EntryPath(fields), fields[2][1], fields[2][2])

\* The line of the loop of GetStatus that is next, trimmed.
NextLine == TrimSpace(Render(out[lineNo + 1]))

IsEntryLine(line) == HasPrefix(line, <<"1", " ">>) \/ HasPrefix(line, <<"2", " ">>)

IsSkippedLine(line) ==
    \/ line = <<>>
    \/ HasPrefix(line, <<"#">>)
    \/ ~IsEntryLine(line) /\ ~HasPrefix(line, <<"?", " ">>)

\* GetStatus, one iteration: a blank line, a header or an unrecognized line.
ParseSkip ==
    /\ pc = "parsing" /\ lineNo < Len(out)
    /\ IsSkippedLine(NextLine)
    /\ lineNo' = lineNo + 1
    /\ emitted' = Append(emitted, <<>>)
    /\ UNCHANGED <<out, files, pc>>
    /\ UNCHANGED nonParseVars

\* GetStatus, one iteration: a "1 " or "2 " line parseOrdinaryEntry returns from.
ParseEntry ==
    /\ pc = "parsing" /\ lineNo < Len(out)
    /\ ~IsSkippedLine(NextLine) /\ IsEntryLine(NextLine)
    /\ ~parseOrdinaryEntryPanics(NextLine)
    /\ LET fs == parseOrdinaryEntry(NextLine)
       IN /\ files' = files \o fs
          /\ emitted' = Append(emitted, fs)
    /\ lineNo' = lineNo + 1
    /\ UNCHANGED <<out, pc>>
    /\ UNCHANGED nonParseVars

\* GetStatus, one iteration: a "1 " or "2 " line parseOrdinaryEntry panics on.
ParsePanic ==
    /\ pc = "parsing" /\ lineNo < Len(out)
    /\ ~IsSkippedLine(NextLine) /\ IsEntryLine(NextLine)
    /\ parseOrdinaryEntryPanics(NextLine)
    /\ pc' = "panic"
    /\ UNCHANGED <<out, lineNo, files, emitted>>
    /\ UNCHANGED nonParseVars

\* GetStatus, one iteration: a "? " line.
ParseUntracked ==
    /\ pc = "parsing" /\ lineNo < Len(out)
    /\ ~IsSkippedLine(NextLine) /\ ~IsEntryLine(NextLine)
    /\ LET fs == <<FileStatus(Slice(NextLine, 3, Len(NextLine)), "?", FALSE)>>
       IN /\ files' = files \o fs
          /\ emitted' = Append(emitted, fs)
    /\ lineNo' = lineNo + 1
    /\ UNCHANGED <<out, pc>>
    /\ UNCHANGED nonParseVars

\* GetStatus returns files once the loop is over.
ParseReturn ==
    /\ pc = "parsing" /\ lineNo = Len(out)
    /\ pc' = "done"
    /\ UNCHANGED <<out, lineNo, files, emitted>>
    /\ UNCHANGED nonParseVars

\* A run of GetStatus over some status output.
InitParse ==
    /\ repos = <<>>
    /\ nodes = <<>>
    /\ visible = <<>>
    /\ cursor = 0
    /\ lastOp = "init"
    /\ out \in StatusOutputs(MaxLines)
    /\ lineNo = 0
    /\ files = <<>>
    /\ emitted = <<>>
    /\ pc = "parsing"
    /\ ScanIdle
    /\ WatchIdle
    /\ LoopIdle

NextParse == ParseSkip \/ ParseEntry \/ ParsePanic \/ ParseUntracked \/ ParseReturn

SpecParse == InitParse /\ [][NextParse]_vars

----------------------------------------------------------------------------
(* The control loop's tree operations *)

\* Every TreeModel NewTreeModel may return for each discovery result, over the
\* map iteration orders of the build.
NewTreeModels ==
    [rs \in ScanResults |-> {NewTreeModel(rs, orders) : orders \in BuildOrders(rs)}]

\* model.Update, case reposScannedMsg.
ReposScanned ==
    \E rs \in ScanResults : \E tm \in NewTreeModels[rs] :
           /\ repos' = rs
           /\ nodes' = tm.nodes
           /\ visible' = tm.visible
           /\ cursor' = tm.cursor
           /\ lastOp' = IF rs = repos /\ lastOp \in {"scan", "rescan"}
                        THEN "rescan" ELSE "scan"
           /\ UNCHANGED nonTreeVars

MoveUp ==
    /\ cursor' = MoveUpCursor(TM)
    /\ lastOp' = "up"
    /\ UNCHANGED <<repos, nodes, visible>>
    /\ UNCHANGED nonTreeVars

MoveDown ==
    /\ cursor' = MoveDownCursor(TM)
    /\ lastOp' = "down"
    /\ UNCHANGED <<repos, nodes, visible>>
    /\ UNCHANGED nonTreeVars

ToggleCollapse ==
    LET tm == ToggleCollapseTM(TM)
    IN /\ nodes' = tm.nodes
       /\ visible' = tm.visible
       /\ cursor' = tm.cursor
       /\ lastOp' = "toggle"
       /\ UNCHANGED repos
       /\ UNCHANGED nonTreeVars

Init ==
    /\ repos = <<>>
    /\ nodes = <<>>
    /\ visible = <<>>
    /\ cursor = 0
    /\ lastOp = "init"
    /\ out = <<>>
    /\ lineNo = 0
    /\ files = <<>>
    /\ emitted = <<>>
    /\ pc = "idle"
    /\ ScanIdle
    /\ WatchIdle
    /\ LoopIdle

Next == ReposScanned \/ MoveUp \/ MoveDown \/ ToggleCollapse

Spec == Init /\ [][Next]_vars

----------------------------------------------------------------------------
(* model.go: Init, Update and handleKey, with the commands they start.      *)
(* The layout (window size, diff position, viewport) is left out.           *)

\* Every TreeModel NewTreeModel may return for the snapshots of LoopDisks.
LoopTreeModels ==
    [rs \in LoopDisks |-> {NewTreeModel(rs, orders) : orders \in BuildOrders(rs)}]

RECURSIVE SumOver(_, _)
SumOver(f, S) ==
    IF S = {} THEN 0
    ELSE LET x == CHOOSE y \in S : TRUE IN f[x] + SumOver(f, S \ {x})

\* The number of discovery passes in flight.
NumPasses == SumOver(passes, PassStates)

\* The number of commands and messages in flight.
InFlight == NumPasses + diffLoads + discards + msgFileChanged

\* A command that starts no pass.
NoScanCmd(ps) == ps

\* scanReposCmd: one more pass in flight.
scanReposCmd(ps) == [ps EXCEPT ![Running] = @ + 1]

\* pollTickCmd: one more poll timer runs.
\* A pollTickCmd that starts two timers.
TwoTimers(timers) == timers + 2

pollTickCmd(timers) == timers + 1

\* Init starts a poll timer when the poll interval is positive.
InitPolls(interval) == interval > 0

\* A pollTickMsg handler that starts no new timer.
NeverRearms(interval) == FALSE

\* The pollTickMsg handler starts a new timer when the poll interval is
\* positive.
TickRearms(interval) == interval > 0

\* Update is called: the program has not quit and no tea.ExecProcess, which
\* blocks the event loop, is running.
LoopRuns == ~quit /\ editor # "running"

\* The selected node is a file.
FileSelected ==
    /\ SelectedNode(TM) # -1
    /\ nodes[SelectedNode(TM) + 1].Kind = "file"

\* The menu handleKey opens has two options: "x" Discard all changes, Cancel.
MenuOptions == 2

\* A working tree changes; the watcher sends a fileChangedMsg for it.
DiskChange ==
    /\ ~quit
    /\ diskChanges < MaxDiskChanges
    /\ InFlight < MaxInFlight
    /\ \E rs \in LoopDisks \ {diskRepos} : diskRepos' = rs
    /\ diskChanges' = diskChanges + 1
    /\ msgFileChanged' = msgFileChanged + 1
    /\ lastOp' = "env"
    /\ UNCHANGED <<passes, pollTimers, editor, diffLoads, discards>>
    /\ UNCHANGED <<treeVars, pollInterval, uiVars, quit, nonLoopVars>>

\* ScanRepos, run by a scanReposCmd, reads the disk.
PassReads ==
    /\ ~quit
    /\ passes[Running] > 0
    /\ passes' = [passes EXCEPT ![Running] = @ - 1, ![HasRead(diskRepos)] = @ + 1]
    /\ lastOp' = "env"
    /\ UNCHANGED <<pollTimers, msgFileChanged, editor, diffLoads, discards>>
    /\ UNCHANGED <<treeVars, pollInterval, envVars, uiVars, quit, nonLoopVars>>

\* The editor started by openInEditorCmd exits.
EditorExits ==
    /\ ~quit
    /\ editor = "running"
    /\ editor' = "exited"
    /\ lastOp' = "env"
    /\ UNCHANGED <<passes, pollTimers, msgFileChanged, diffLoads, discards>>
    /\ UNCHANGED <<treeVars, pollInterval, envVars, uiVars, quit, nonLoopVars>>

\* The discardAll command runs: DiscardAllChanges changes the working tree,
\* or fails (its error is dropped); a fileChangedMsg is returned either way.
DiscardRuns ==
    /\ ~quit
    /\ discards > 0
    /\ discards' = discards - 1
    /\ msgFileChanged' = msgFileChanged + 1
    /\ \/ UNCHANGED envVars
       \/ /\ diskChanges < MaxDiskChanges
          /\ \E rs \in LoopDisks \ {diskRepos} : diskRepos' = rs
          /\ diskChanges' = diskChanges + 1
    /\ lastOp' = "env"
    /\ UNCHANGED <<passes, pollTimers, editor, diffLoads>>
    /\ UNCHANGED <<treeVars, pollInterval, uiVars, quit, nonLoopVars>>

\* Update, case reposScannedMsg.
OnReposScanned ==
    /\ LoopRuns
    /\ \E rs \in LoopDisks : \E tm \in LoopTreeModels[rs] :
          /\ passes[HasRead(rs)] > 0
          /\ passes' = [passes EXCEPT ![HasRead(rs)] = @ - 1]
          /\ repos' = rs
          /\ nodes' = tm.nodes
          /\ visible' = tm.visible
          /\ cursor' = tm.cursor
    /\ lastOp' = "scan"
    /\ UNCHANGED <<pollTimers, msgFileChanged, editor, diffLoads, discards>>
    /\ UNCHANGED <<pollInterval, envVars, uiVars, quit, nonLoopVars>>

\* Update, case diffLoadedMsg.
OnDiffLoaded ==
    /\ LoopRuns
    /\ diffLoads > 0
    /\ diffLoads' = diffLoads - 1
    /\ diffOpen' = TRUE
    /\ lastOp' = "other"
    /\ UNCHANGED <<passes, pollTimers, msgFileChanged, editor, discards>>
    /\ UNCHANGED <<treeVars, pollInterval, envVars, focused, menuOpen, menuCursor, quit,
                   nonLoopVars>>

\* Update, case fileChangedMsg.
OnFileChanged ==
    /\ LoopRuns
    /\ msgFileChanged > 0
    /\ msgFileChanged' = msgFileChanged - 1
    /\ passes' = scanReposCmd(passes)
    /\ lastOp' = "fileChanged"
    /\ UNCHANGED <<pollTimers, editor, diffLoads, discards>>
    /\ UNCHANGED <<treeVars, pollInterval, envVars, uiVars, quit, nonLoopVars>>

\* Update, case editorFinishedMsg.
OnEditorFinished ==
    /\ ~quit
    /\ editor = "exited"
    /\ InFlight < MaxInFlight
    /\ editor' = "idle"
    /\ passes' = scanReposCmd(passes)
    /\ lastOp' = "editorFinished"
    /\ UNCHANGED <<pollTimers, msgFileChanged, diffLoads, discards>>
    /\ UNCHANGED <<treeVars, pollInterval, envVars, uiVars, quit, nonLoopVars>>

\* Update, case pollTickMsg: a poll timer has fired.
OnPollTick ==
    /\ LoopRuns
    /\ pollTimers > 0
    /\ InFlight < MaxInFlight
    /\ pollTimers' = IF TickRearms(pollInterval) THEN pollTickCmd(pollTimers - 1)
                     ELSE pollTimers - 1
    /\ passes' = scanReposCmd(passes)
    /\ lastOp' = "pollTick"
    /\ UNCHANGED <<msgFileChanged, editor, diffLoads, discards>>
    /\ UNCHANGED <<treeVars, pollInterval, envVars, uiVars, quit, nonLoopVars>>

\* closeMenu.
MenuClosed == menuOpen' = FALSE /\ menuCursor' = 0

\* handleKey, "up" or "k".
KeyUp ==
    /\ LoopRuns
    /\ IF menuOpen
       THEN /\ menuCursor' = IF menuCursor > 0 THEN menuCursor - 1 ELSE menuCursor
            /\ UNCHANGED cursor
       ELSE /\ cursor' = IF focused = "tree" THEN MoveUpCursor(TM) ELSE cursor
            /\ UNCHANGED menuCursor
    /\ lastOp' = "other"
    /\ UNCHANGED <<repos, nodes, visible, focused, diffOpen, menuOpen>>
    /\ UNCHANGED <<pollInterval, cmdVars, envVars, quit, nonLoopVars>>

\* handleKey, "down" or "j".
KeyDown ==
    /\ LoopRuns
    /\ IF menuOpen
       THEN /\ menuCursor' = IF menuCursor < MenuOptions - 1 THEN menuCursor + 1
                             ELSE menuCursor
            /\ UNCHANGED cursor
       ELSE /\ cursor' = IF focused = "tree" THEN MoveDownCursor(TM) ELSE cursor
            /\ UNCHANGED menuCursor
    /\ lastOp' = "other"
    /\ UNCHANGED <<repos, nodes, visible, focused, diffOpen, menuOpen>>
    /\ UNCHANGED <<pollInterval, cmdVars, envVars, quit, nonLoopVars>>

\* handleKey, "enter": the option under the menu cursor (the first is
\* discardAll, the second Cancel), or loadDiffCmd for the selected file.
KeyEnter ==
    /\ LoopRuns
    /\ IF menuOpen
       THEN /\ MenuClosed
            /\ IF menuCursor = 0
               THEN InFlight < MaxInFlight /\ discards' = discards + 1
               ELSE UNCHANGED discards
            /\ UNCHANGED diffLoads
       ELSE /\ IF focused = "tree" /\ FileSelected
               THEN InFlight < MaxInFlight /\ diffLoads' = diffLoads + 1
               ELSE UNCHANGED diffLoads
            /\ UNCHANGED <<menuOpen, menuCursor, discards>>
    /\ lastOp' = "other"
    /\ UNCHANGED <<passes, pollTimers, msgFileChanged, editor>>
    /\ UNCHANGED <<treeVars, focused, diffOpen>>
    /\ UNCHANGED <<pollInterval, envVars, quit, nonLoopVars>>

\* An "esc" that runs the first option of the open menu.
EscConfirms ==
    /\ LoopRuns
    /\ IF menuOpen
       THEN MenuClosed /\ InFlight < MaxInFlight /\ discards' = discards + 1
       ELSE /\ menuOpen' = FALSE
            /\ menuCursor' = menuCursor
            /\ discards' = discards
    /\ IF menuOpen THEN UNCHANGED <<diffOpen, focused>>
       ELSE diffOpen' = FALSE /\ focused' = "tree"
    /\ lastOp' = IF menuOpen THEN "other" ELSE "esc"
    /\ UNCHANGED <<passes, pollTimers, msgFileChanged, editor, diffLoads>>
    /\ UNCHANGED <<treeVars, pollInterval, envVars, quit, nonLoopVars>>

\* handleKey, "esc".
KeyEsc ==
    /\ LoopRuns
    /\ IF menuOpen
       THEN MenuClosed /\ UNCHANGED <<diffOpen, focused>>
       ELSE /\ diffOpen' = FALSE
            /\ focused' = "tree"
            /\ UNCHANGED <<menuOpen, menuCursor>>
    /\ lastOp' = IF menuOpen THEN "other" ELSE "esc"
    /\ UNCHANGED <<treeVars, pollInterval, cmdVars, envVars, quit, nonLoopVars>>

\* A "tab" that moves the focus whether or not the diff panel is open.
TabAlways ==
    /\ LoopRuns
    /\ focused' = IF ~menuOpen
                  THEN (IF focused = "tree" THEN "diff" ELSE "tree")
                  ELSE focused
    /\ lastOp' = "other"
    /\ UNCHANGED <<diffOpen, menuOpen, menuCursor>>
    /\ UNCHANGED <<treeVars, pollInterval, cmdVars, envVars, quit, nonLoopVars>>

\* handleKey, "tab".
KeyTab ==
    /\ LoopRuns
    /\ focused' = IF ~menuOpen /\ diffOpen
                  THEN (IF focused = "tree" THEN "diff" ELSE "tree")
                  ELSE focused
    /\ lastOp' = "other"
    /\ UNCHANGED <<diffOpen, menuOpen, menuCursor>>
    /\ UNCHANGED <<treeVars, pollInterval, cmdVars, envVars, quit, nonLoopVars>>

\* handleKey, "c" or "e".
KeyCollapse ==
    /\ LoopRuns
    /\ LET tm == IF ~menuOpen /\ focused = "tree" THEN ToggleCollapseTM(TM) ELSE TM
       IN /\ nodes' = tm.nodes
          /\ visible' = tm.visible
          /\ cursor' = tm.cursor
    /\ lastOp' = "other"
    /\ UNCHANGED <<repos, pollInterval, cmdVars, envVars, uiVars, quit, nonLoopVars>>

\* handleKey, "o": openInEditorCmd for the selected file.
KeyOpen ==
    /\ LoopRuns
    /\ IF ~menuOpen /\ focused = "tree" /\ FileSelected
       THEN editor = "idle" /\ editor' = "running"
       ELSE UNCHANGED editor
    /\ lastOp' = "other"
    /\ UNCHANGED <<passes, pollTimers, msgFileChanged, diffLoads, discards>>
    /\ UNCHANGED <<treeVars, pollInterval, envVars, uiVars, quit, nonLoopVars>>

\* handleKey, "d": the discard menu for the selected file.
KeyDiscard ==
    /\ LoopRuns
    /\ IF ~menuOpen /\ focused = "tree" /\ FileSelected
       THEN menuOpen' = TRUE /\ menuCursor' = 0
       ELSE UNCHANGED <<menuOpen, menuCursor>>
    /\ lastOp' = "other"
    /\ UNCHANGED <<focused, diffOpen>>
    /\ UNCHANGED <<treeVars, pollInterval, cmdVars, envVars, quit, nonLoopVars>>

\* handleKey, "x": the shortcut of the first option of the menu.
KeyShortcut ==
    /\ LoopRuns
    /\ IF menuOpen
       THEN MenuClosed /\ InFlight < MaxInFlight /\ discards' = discards + 1
       ELSE UNCHANGED <<menuOpen, menuCursor, discards>>
    /\ lastOp' = "other"
    /\ UNCHANGED <<passes, pollTimers, msgFileChanged, editor, diffLoads>>
    /\ UNCHANGED <<focused, diffOpen>>
    /\ UNCHANGED <<treeVars, pollInterval, envVars, quit, nonLoopVars>>

\* handleKey, "r": with the menu open the key is the menu's and matches no
\* option.
KeyRefresh ==
    /\ LoopRuns
    /\ IF menuOpen THEN UNCHANGED passes
       ELSE InFlight < MaxInFlight /\ passes' = scanReposCmd(passes)
    /\ lastOp' = "r"
    /\ UNCHANGED <<pollTimers, msgFileChanged, editor, diffLoads, discards>>
    /\ UNCHANGED <<treeVars, pollInterval, envVars, uiVars, quit, nonLoopVars>>

\* handleKey, "q" or "ctrl+c": tea.Quit ends the program, and its state,
\* timers and commands in flight end with it.
KeyQuit ==
    /\ LoopRuns
    /\ IF menuOpen
       THEN /\ lastOp' = "other"
            /\ UNCHANGED <<treeVars, loopVars>>
       ELSE /\ lastOp' = "quit"
            /\ repos' = <<>>
            /\ nodes' = <<>>
            /\ visible' = <<>>
            /\ cursor' = 0
            /\ pollInterval' = 0
            /\ passes' = NoPasses
            /\ pollTimers' = 0
            /\ msgFileChanged' = 0
            /\ editor' = "idle"
            /\ diffLoads' = 0
            /\ discards' = 0
            /\ diskRepos' = <<>>
            /\ diskChanges' = 0
            /\ focused' = "tree"
            /\ diffOpen' = FALSE
            /\ menuOpen' = FALSE
            /\ menuCursor' = 0
            /\ quit' = TRUE
    /\ UNCHANGED nonLoopVars

InitLoop ==
    /\ TreeIdle
    /\ ParseIdle
    /\ ScanIdle
    /\ WatchIdle
    /\ pollInterval \in PollIntervals
    /\ passes = scanReposCmd(NoPasses)
    /\ pollTimers = IF InitPolls(pollInterval) THEN pollTickCmd(0) ELSE 0
    /\ msgFileChanged = 0
    /\ editor = "idle"
    /\ diffLoads = 0
    /\ discards = 0
    /\ diskRepos \in LoopDisks
    /\ diskChanges = 0
    /\ focused = "tree"
    /\ diffOpen = FALSE
    /\ menuOpen = FALSE
    /\ menuCursor = 0
    /\ quit = FALSE

NextLoop ==
    \/ DiskChange \/ PassReads \/ EditorExits \/ DiscardRuns
    \/ OnReposScanned \/ OnDiffLoaded \/ OnFileChanged \/ OnEditorFinished
    \/ OnPollTick
    \/ KeyUp \/ KeyDown \/ KeyEnter \/ KeyEsc \/ KeyTab \/ KeyCollapse \/ KeyOpen
    \/ KeyDiscard \/ KeyShortcut \/ KeyRefresh \/ KeyQuit

SpecLoop == InitLoop /\ [][NextLoop]_vars

----------------------------------------------------------------------------
(* A discovery pass: ScanRepos run on some state of the disk *)

InitScan ==
    /\ repos = <<>>
    /\ nodes = <<>>
    /\ visible = <<>>
    /\ cursor = 0
    /\ lastOp = "init"
    /\ out = <<>>
    /\ lineNo = 0
    /\ files = <<>>
    /\ emitted = <<>>
    /\ pc = "idle"
    /\ disk \in Disks
    /\ scanDepth \in 1..MaxScanDepth
    /\ scanOut = <<>>
    /\ scanIdx = 0
    /\ pcScan = "root"
    /\ WatchIdle
    /\ LoopIdle

NextScan == ScanRoot \/ ScanEntry \/ ScanReturn

SpecScan == InitScan /\ [][NextScan]_vars

----------------------------------------------------------------------------
(* The watcher: watchFiles from its start *)

\* watchFiles after addWatchPaths, before the first event.
InitWatch ==
    /\ TreeIdle
    /\ ParseIdle
    /\ disk = WatchDisk
    /\ scanDepth = 1
    /\ scanOut = <<>>
    /\ scanIdx = 0
    /\ pcScan = "idle"
    /\ dirsNow = Dirs \cup {Append(dir, dot_git) : dir \in WatchDisk.repos}
    /\ watched = addWatchPaths
    /\ now = 0
    /\ debounce = -1
    /\ notified = 0
    /\ lastEvent = -1
    /\ bursts = 0
    /\ events = 0
    /\ changes = 0
    /\ lastPath = <<>>
    /\ LoopIdle

NextWatch == FsChange \/ TimerFires \/ TimePasses

SpecWatch == InitWatch /\ [][NextWatch]_vars

----------------------------------------------------------------------------
(* Definitions the tree claims are stated with *)

NodeIdx(ns) == 0..(Len(ns) - 1)

Built(op) == op \in {"scan", "rescan"}

\* The node reached from i by following ParentDir at most fuel times.
RECURSIVE Climb(_, _, _)
Climb(ns, i, fuel) ==
    IF fuel = 0 \/ ns[i + 1].ParentDir \notin NodeIdx(ns) THEN i
    ELSE Climb(ns, ns[i + 1].ParentDir, fuel - 1)

\* The proper ancestors of node i.
AncestorsOf(ns, i) ==
    {Climb(ns, i, k) : k \in 1..Len(ns)} \ {i}

\* The full directory path of directory node i, from its chain of segments.
RECURSIVE FullDir(_, _)
FullDir(ns, i) ==
    LET n == ns[i + 1]
    IN IF n.Kind # "dir" THEN <<>>
       ELSE IF n.ParentDir \in NodeIdx(ns) /\ n.ParentDir < i
                /\ ns[n.ParentDir + 1].Kind = "dir"
       THEN FullDir(ns, n.ParentDir) \o <<"/">> \o n.DirPath
       ELSE n.DirPath

\* The semantic identity of a repository or directory node.
Identity(ns, i) == <<ns[i + 1].Kind, ns[i + 1].Repo, FullDir(ns, i)>>

\* The node indices of repository r (0-based), in increasing order.
BlockOf(ns, r) == {i \in NodeIdx(ns) : ns[i + 1].RepoIndex = r}

----------------------------------------------------------------------------
(* C1 *)

\* C1: when a discovery result with unchanged repositories and files is applied,
\* every collapsed repository or directory node has a node of the same semantic
\* identity in the new node set that is still collapsed.
C1_CollapseSurvivesRebuild ==
    [][(Built(lastOp') /\ repos' = repos) =>
         \A i \in NodeIdx(nodes) :
            (nodes[i + 1].Kind \in {"repo", "dir"} /\ nodes[i + 1].Collapsed) =>
               \E j \in NodeIdx(nodes') :
                  /\ Identity(nodes', j) = Identity(nodes, i)
                  /\ nodes'[j + 1].Collapsed]_vars

----------------------------------------------------------------------------
(* C2 *)

\* C2: a rebuild with the cursor on the last row of a list of length N that
\* shrinks the list to length M, 0 < M < N, leaves the cursor at M-1 (no
\* selection when M = 0); and a rebuild leaves a cursor that is still inside
\* the new list where it was.
C2_CursorClampedOnRebuild ==
    [][Built(lastOp') =>
         /\ (Len(visible) > 0 /\ cursor = Len(visible) - 1
               /\ Len(visible') < Len(visible)) =>
                IF Len(visible') > 0 THEN cursor' = Len(visible') - 1
                ELSE SelectedNode([nodes |-> nodes', visible |-> visible',
                                   cursor |-> cursor']) = -1
         /\ cursor < Len(visible') => cursor' = cursor]_vars

----------------------------------------------------------------------------
(* C3 *)

\* C3: the cursor is within [0, len(visible)) whenever visible is non-empty, and
\* SelectedNode returns nil exactly when visible is empty.
C3_CursorInRange ==
    /\ Len(visible) > 0 => (0 <= cursor /\ cursor < Len(visible))
    /\ SelectedNode(TM) = -1 <=> Len(visible) = 0

\* MoveDown ran with the cursor on the last of several rows.
C3_Witness ==
    /\ lastOp = "down"
    /\ Len(visible) >= 2
    /\ cursor = Len(visible) - 1

----------------------------------------------------------------------------
(* C4 *)

\* C4: visible lists, in increasing node-index order, exactly the nodes none of
\* whose ancestors is collapsed; every repository node is in it.
C4_VisibleIffAncestorsExpanded ==
    /\ \A k \in 1..Len(visible) : visible[k] \in NodeIdx(nodes)
    /\ \A k, l \in 1..Len(visible) : k < l => visible[k] < visible[l]
    /\ {visible[k] : k \in 1..Len(visible)} =
          {i \in NodeIdx(nodes) :
              \A a \in AncestorsOf(nodes, i) : ~nodes[a + 1].Collapsed}
    /\ \A i \in NodeIdx(nodes) :
          nodes[i + 1].Kind = "repo" => \E k \in 1..Len(visible) : visible[k] = i

\* A toggle collapsed a node that has a grandchild: the descendants are hidden
\* although the grandchild's own parent is expanded.
C4_Witness ==
    /\ lastOp = "toggle"
    /\ \E i \in NodeIdx(nodes) : \E a \in AncestorsOf(nodes, i) :
          /\ nodes[a + 1].Collapsed
          /\ ~nodes[nodes[i + 1].ParentDir + 1].Collapsed
          /\ \A k \in 1..Len(visible) : visible[k] # i

----------------------------------------------------------------------------
(* C5 *)

\* C5: the nodes form a forest: a repository node has ParentDir -1 and depth 0;
\* a directory or file node has an earlier repository or directory node of its
\* own repository as parent, is one level below it, and its parent chain ends
\* at a repository node.
C5_Forest ==
    \A i \in NodeIdx(nodes) :
        LET n == nodes[i + 1]
        IN IF n.Kind = "repo"
           THEN n.ParentDir = -1 /\ n.Depth = 0
           ELSE /\ n.ParentDir \in 0..(i - 1)
                /\ nodes[n.ParentDir + 1].Kind \in {"repo", "dir"}
                /\ nodes[n.ParentDir + 1].RepoIndex = n.RepoIndex
                /\ n.Depth = nodes[n.ParentDir + 1].Depth + 1
                /\ LET root == nodes[Climb(nodes, i, Len(nodes)) + 1]
                   IN root.Kind = "repo" /\ root.ParentDir = -1

\* A build produced a file two directories below its repository.
C5_Witness ==
    /\ Built(lastOp)
    /\ \E i \in NodeIdx(nodes) :
          /\ nodes[i + 1].Kind = "file"
          /\ nodes[i + 1].Depth = 3
          /\ Cardinality(AncestorsOf(nodes, i)) = 3

----------------------------------------------------------------------------
(* C6 *)

\* The files of repository r (0-based) whose bucket key is dir.
FilesIn(r, dir) == SelectSeq(repos[r + 1].Files, LAMBDA f : FileDir(f) = dir)

\* The node sequence as <<kind, path>> pairs: a repository's RelPath, a
\* directory's last segment, a file's path.
Shape(ns) ==
    [k \in 1..Len(ns) |->
        <<ns[k].Kind,
          IF ns[k].Kind = "repo" THEN ns[k].Repo
          ELSE IF ns[k].Kind = "dir" THEN ns[k].DirPath
          ELSE ns[k].File.Path>>]

\* C6: within one repository the repository node comes first; the directory
\* nodes follow in lexicographic order of their full path, each immediately
\* followed by the file nodes of the files directly in it, in the order of the
\* file list; the root-level files come last. README.md and src/main.go give
\* [Repository, Directory(src), File(src/main.go), File(README.md)], all visible
\* when nothing is collapsed.
C6_EmissionOrder ==
    /\ \A r \in 0..(Len(repos) - 1) :
          LET block == BlockOf(nodes, r)
              first == SetMin(block)
              last == SetMax(block)
              dirs == {i \in block : nodes[i + 1].Kind = "dir"}
              rootFiles == FilesIn(r, <<>>)
          IN /\ block # {}
             /\ block = first..last
             /\ nodes[first + 1].Kind = "repo"
             /\ nodes[first + 1].Repo = repos[r + 1].RelPath
             /\ \A i \in block \ {first} : nodes[i + 1].Kind # "repo"
             /\ \A i, j \in dirs :
                   i < j => StrLess(FullDir(nodes, i), FullDir(nodes, j))
             /\ \A i \in dirs :
                   LET own == FilesIn(r, FullDir(nodes, i))
                   IN /\ i + Len(own) <= last
                      /\ \A k \in 1..Len(own) :
                            /\ nodes[i + k + 1].Kind = "file"
                            /\ nodes[i + k + 1].File = own[k]
                            /\ nodes[i + k + 1].ParentDir = i
                      /\ \A j \in block :
                            (nodes[j + 1].Kind = "file" /\ nodes[j + 1].ParentDir = i)
                               => j \in (i + 1)..(i + Len(own))
             /\ \A k \in 1..Len(rootFiles) :
                   LET n == nodes[last - Len(rootFiles) + k + 1]
                   IN n.Kind = "file" /\ n.File = rootFiles[k] /\ n.ParentDir = first
             /\ \A i \in dirs : i + Len(FilesIn(r, FullDir(nodes, i)))
                                   <= last - Len(rootFiles)
    /\ (/\ repos = <<Repo(proj, <<FileStatus(README_md, "M", FALSE),
                                  FileStatus(src_main_go, "A", FALSE)>>)>>
        /\ \A i \in NodeIdx(nodes) : ~nodes[i + 1].Collapsed)
       => /\ Shape(nodes) = << <<"repo", proj>>, <<"dir", <<"s", "r", "c">> >>,
                               <<"file", src_main_go>>, <<"file", README_md>> >>
          /\ visible = <<0, 1, 2, 3>>

\* A build from a repository with a root-level file and files in two sibling
\* directories, the later directory of the file list sorting first.
C6_Witness ==
    /\ Built(lastOp)
    /\ \E r \in 0..(Len(repos) - 1) :
          /\ Len(FilesIn(r, <<"s", "r", "c">>)) >= 1
          /\ Len(FilesIn(r, <<"s", "r", "c", "-", "b">>)) >= 1

----------------------------------------------------------------------------
(* C7 *)

\* C7: a build from the repository list the tree was just built from, with no
\* user action in between, yields the same nodes (collapse flags included) and
\* the same visible list, whatever order the maps of the build are ranged in.
C7_BuildIdempotent ==
    [][lastOp' = "rescan" =>
         /\ nodes' = nodes
         /\ visible' = visible
         /\ \A i \in NodeIdx(nodes) :
               nodes'[i + 1].Collapsed = nodes[i + 1].Collapsed]_vars

\* Two builds in a row from one list whose directory set has several keys.
C7_Witness ==
    /\ lastOp = "rescan"
    /\ \E r \in 1..Len(repos) :
          Cardinality(DirSet(DirFiles(repos[r].Files))) >= 2

----------------------------------------------------------------------------
(* C8 *)

\* The status kind the closed table gives a marker.
KindOfMarker(c) == IF c \in {"M", "A", "D", "R", "C"} THEN c ELSE "M"

\* C8: every ordinary or rename entry with an unstaged marker yields exactly
\* one FileChange, unstaged and of the unstaged marker's kind, whatever the
\* staged marker; with a staged marker only, exactly one staged FileChange of
\* the staged marker's kind; with neither, nothing.
C8_UnstagedBeforeStaged ==
    \A k \in 1..Len(emitted) :
        out[k].tag \in {"ordinary", "rename"} =>
            LET staged == out[k].xy[1]
                unstaged == out[k].xy[2]
                e == emitted[k]
            IN IF unstaged # "."
               THEN /\ Len(e) = 1
                    /\ e[1].IsStaged = FALSE
                    /\ e[1].Status = KindOfMarker(unstaged)
               ELSE IF staged # "."
               THEN /\ Len(e) = 1
                    /\ e[1].IsStaged = TRUE
                    /\ e[1].Status = KindOfMarker(staged)
               ELSE e = <<>>

\* The parser consumed an entry with both markers present, of different kinds.
C8_Witness ==
    \E k \in 1..Len(emitted) :
        /\ out[k].tag \in {"ordinary", "rename"}
        /\ out[k].xy \in {<<"A", "D">>, <<"R", "M">>}
        /\ Len(emitted[k]) = 1

----------------------------------------------------------------------------
(* C9 *)

\* C9: the FileChange of a rename or copy entry carries the new path, never
\* the original path.
C9_RenameKeepsNewPath ==
    \A k \in 1..Len(emitted) :
        out[k].tag = "rename" =>
            \A j \in 1..Len(emitted[k]) :
                /\ emitted[k][j].Path = out[k].path
                /\ emitted[k][j].Path # out[k].orig

----------------------------------------------------------------------------
(* C10 *)

\* A line with too few fields or with a marker field shorter than two bytes.
Malformed(l) == l.tag \in {"truncated", "shortxy"}

\* C10: no line aborts the parse: a malformed line or one of no recognized
\* shape is dropped, and the entries around it still yield their FileChange.
C10_NoLineAbortsParse ==
    /\ pc # "panic"
    /\ \A k \in 1..Len(emitted) :
          /\ (Malformed(out[k]) \/ out[k].tag \in {"header", "blank", "unmerged"})
                => emitted[k] = <<>>
          /\ out[k].tag = "untracked" => Len(emitted[k]) = 1
          /\ (out[k].tag \in {"ordinary", "rename"} /\ out[k].xy # <<".", ".">>)
                => Len(emitted[k]) = 1
    /\ pc = "done" => Len(emitted) = Len(out)

----------------------------------------------------------------------------
(* C11 *)

\* The status output names every path in at most one entry, as the status
\* command does.
PathsListedOnce ==
    \A j, k \in 1..Len(out) :
        (j < k /\ out[j].tag \in {"ordinary", "rename", "untracked"}
               /\ out[k].tag \in {"ordinary", "rename", "untracked"})
            => out[j].path # out[k].path

\* C11: in the snapshot the status parser produces for a repository, no two
\* FileChange records have the same path.
C11_OneRecordPerPath ==
    PathsListedOnce =>
        \A i, j \in 1..Len(files) : i < j => files[i].Path # files[j].Path

----------------------------------------------------------------------------
(* C12 *)

\* The records of a finished pass other than the root's.
NonRoot(rs) == SelectSeq(rs, LAMBDA r : r.Path # RootAbs)

\* C12: in the result of a discovery pass the scan root, when it is itself a
\* repository, comes first whatever the names of the other repositories, and
\* all other repositories follow in lexicographic order of display path.
C12_RootFirstThenSorted ==
    pcScan = "done" =>
        /\ isGitRepo(<<>>) => (scanOut # <<>> /\ scanOut[1].Path = RootAbs)
        /\ \A i, j \in 1..Len(NonRoot(scanOut)) :
              i < j => StrLess(NonRoot(scanOut)[i].RelPath, NonRoot(scanOut)[j].RelPath)
        /\ isGitRepo(<<>>) => scanOut = <<scanOut[1]>> \o NonRoot(scanOut)

----------------------------------------------------------------------------
(* C13 *)

\* The directories a pass of maximum depth d has to report: the root and the
\* directories at most d levels below it that no hidden directory leads to,
\* when they hold the metadata directory.
Qualifying(d) ==
    {dir \in Dirs :
        /\ isGitRepo(dir)
        /\ Len(dir) <= d
        /\ \A k \in 1..Len(dir) : ~IsHidden(dir[k])}

Reported == {scanOut[i].Path : i \in 1..Len(scanOut)}

\* C13: for every configured maximum depth d >= 1, a pass on a disk where
\* every directory can be listed reports exactly the root (when it
\* qualifies) and every directory that holds the metadata directory, lies at
\* most d levels below the root and is reached through non-hidden
\* directories only; nested repositories are both reported; nothing below
\* depth d is.
C13_ExactlyWithinDepth ==
    (pcScan = "done" /\ disk.unlistable = {}) =>
        /\ Reported = {AbsPath(dir) : dir \in Qualifying(scanDepth)}
        /\ Len(scanOut) = Cardinality(Reported)

----------------------------------------------------------------------------
(* C14 *)

\* The repositories ScanRepos can come to: within its levels, through
\* non-hidden directories, every directory on the way listed.
Discoverable ==
    {dir \in Dirs :
        /\ isGitRepo(dir)
        /\ Len(dir) <= ScanLevels
        /\ \A k \in 1..Len(dir) : ~IsHidden(dir[k])
        /\ \A k \in 0..(Len(dir) - 1) : SubSeq(dir, 1, k) \notin disk.unlistable}

RecordsOf(dir) == SelectSeq(scanOut, LAMBDA r : r.Path = AbsPath(dir))

\* C14: a pass always returns; a repository whose status command fails is
\* reported with an empty file list, a subdirectory that cannot be listed is
\* skipped, and every other repository the pass can come to is reported,
\* once, with its files.
C14_FailingUnitNeverAborts ==
    /\ pcScan \in {"idle", "root", "entries", "done"}
    /\ pcScan = "done" =>
          /\ \A dir \in Discoverable :
                /\ Len(RecordsOf(dir)) = 1
                /\ RecordsOf(dir)[1].Files =
                      IF dir \in disk.statusFails THEN <<>> ELSE StatusFiles
          /\ Len(scanOut) = Cardinality(Discoverable)

\* A finished pass on a disk where the status command fails in a repository,
\* a subdirectory that holds entries cannot be listed, and another
\* repository is reported with its files.
C14_Witness ==
    /\ pcScan = "done"
    /\ disk.unlistable = {<<app>>}
    /\ \E dir \in disk.statusFails : Len(RecordsOf(dir)) = 1
    /\ \E i \in 1..Len(scanOut) : scanOut[i].Files = StatusFiles

----------------------------------------------------------------------------
(* C15 *)

\* C15: events that pass the filter less than 100 ms apart form one burst
\* and yield exactly one notification, sent when the timer fires with no
\* further event; the number of notifications sent is the number of bursts,
\* less the burst whose timer still runs.
C15_OneNotificationPerBurst ==
    /\ notified = IF debounce # -1 THEN bursts - 1 ELSE bursts
    /\ debounce # -1 => debounce = lastEvent + DebounceMs

\* Three events, two of them in one burst, and both bursts notified.
C15_Witness ==
    /\ events = 3
    /\ bursts = 2
    /\ notified = 2
    /\ debounce = -1

----------------------------------------------------------------------------
(* C16 *)

\* The head reference of a discovered repository.
IsHeadPath(path) ==
    \E dir \in disk.repos : path = dir \o <<dot_git, HEAD>>

\* C16: a change of the head reference of a discovered repository is
\* reported to the watcher, passes the filter and starts the timer whose
\* firing sends the rescan notification.
C16_HeadChangeNotifies ==
    [][(changes' = changes + 1 /\ IsHeadPath(lastPath'))
         => (events' = events + 1 /\ debounce' = now' + DebounceMs)]_vars

----------------------------------------------------------------------------
(* C17 *)

\* A file of the working tree of a discovered repository: below the
\* repository, outside every metadata directory.
InWorkingTree(path) ==
    /\ path # NewDir
    /\ \E dir \in disk.repos :
          Len(path) > Len(dir) /\ SubSeq(path, 1, Len(dir)) = dir
    /\ \A k \in 1..Len(path) : path[k] # dot_git

\* C17: a change of a file in the working tree of a discovered repository,
\* at any directory depth and in directories created after startup too, is
\* reported to the watcher and starts the timer whose firing sends the rescan
\* notification.
C17_FileChangeNotifies ==
    [][(changes' = changes + 1 /\ InWorkingTree(lastPath'))
         => (events' = events + 1 /\ debounce' = now' + DebounceMs)]_vars

----------------------------------------------------------------------------
(* C18 *)

\* C18: with a positive poll interval exactly one poll timer runs at any
\* time, from Init on and whatever else is handled, so the control loop gets
\* one poll notification per interval; with interval 0 no timer runs and no
\* poll notification is ever handled.
C18_OnePollTimer ==
    /\ pollInterval = 0 => (pollTimers = 0 /\ lastOp # "pollTick")
    /\ pollInterval > 0 => pollTimers = 1

\* A poll notification was handled while a watch-based one is on its way.
C18_Witness ==
    /\ pollInterval > 0
    /\ lastOp = "pollTick"
    /\ msgFileChanged > 0

----------------------------------------------------------------------------
(* C19 *)

\* The working trees have stopped changing and nothing is in flight any
\* more: every pass has delivered its result.
Settled ==
    /\ ~quit
    /\ diskChanges = MaxDiskChanges
    /\ InFlight = 0
    /\ editor = "idle"

\* C19: once the working trees have stopped changing and every pass in
\* flight has delivered its result, the displayed snapshot is what a pass
\* over the final state of the disk produces, whatever the order the
\* overlapping passes completed in.
C19_SettledShowsFinalDisk == Settled => repos = diskRepos

----------------------------------------------------------------------------
(* C20 *)

\* The nodes without their collapse flags.
NodeSet(ns) == [i \in DOMAIN ns |-> [ns[i] EXCEPT !.Collapsed = FALSE]]

\* C20: handling a rescan notification (watch-based, poll tick, editor
\* finished, or the refresh key when no menu is open) starts exactly one
\* discovery pass and leaves the snapshot, the nodes with their collapse
\* flags, the visible list and the cursor unchanged; the snapshot and the
\* node set change only when the result of a pass is handled (or the
\* program quits).
C20_NotificationOnlySchedules ==
    [][/\ (\/ lastOp' \in {"fileChanged", "editorFinished", "pollTick"}
           \/ (lastOp' = "r" /\ ~menuOpen))
          => /\ passes'[Running] = passes[Running] + 1
             /\ \A ps \in PassStates \ {Running} : passes'[ps] = passes[ps]
             /\ UNCHANGED <<repos, nodes, visible, cursor>>
       /\ (repos' # repos \/ NodeSet(nodes') # NodeSet(nodes))
          => lastOp' \in {"scan", "quit"}]_vars

\* The refresh key was handled with a directory collapsed and the cursor
\* below the first row, and its pass is in flight.
C20_Witness ==
    /\ lastOp = "r"
    /\ ~menuOpen
    /\ passes[Running] > 0
    /\ cursor > 0
    /\ \E i \in 1..Len(nodes) : nodes[i].Collapsed

----------------------------------------------------------------------------
\* C21: MoveUp at offset 0 and MoveDown at the last offset (or on an empty
\* list) leave the cursor unchanged; otherwise they change the offset by
\* exactly 1; neither changes nodes, collapse flags or the visible list.
C21_MoveClamps ==
    [][/\ lastOp' = "up"
          => /\ cursor' = (IF cursor = 0 THEN 0 ELSE cursor - 1)
             /\ UNCHANGED <<repos, nodes, visible>>
       /\ lastOp' = "down"
          => /\ cursor' = (IF Len(visible) = 0 \/ cursor = Len(visible) - 1
                           THEN cursor ELSE cursor + 1)
             /\ UNCHANGED <<repos, nodes, visible>>]_vars

\* MoveUp has acted with the cursor on the first of several rows.
C21_Witness ==
    /\ lastOp = "up"
    /\ cursor = 0
    /\ Len(visible) >= 2

----------------------------------------------------------------------------
\* C22: ToggleCollapse with a file node or nothing selected changes no
\* collapse flag, no entry of the visible list and not the cursor; with a
\* repository or directory selected it flips that node's collapsed flag and
\* no other node's.
C22_ToggleOnlyReposAndDirs ==
    [][lastOp' = "toggle"
       => LET sel == SelectedNode(TM)
          IN IF sel = -1 \/ nodes[sel + 1].Kind = "file"
             THEN UNCHANGED <<nodes, visible, cursor>>
             ELSE /\ nodes[sel + 1].Kind \in {"repo", "dir"}
                  /\ nodes' = [nodes EXCEPT ![sel + 1].Collapsed = ~@]]_vars

\* ToggleCollapse has acted with a file node selected.
C22_Witness ==
    /\ lastOp = "toggle"
    /\ SelectedNode(TM) # -1
    /\ nodes[SelectedNode(TM) + 1].Kind = "file"

----------------------------------------------------------------------------
\* The keys that are neither "enter" nor the shortcut "x".
OtherKey ==
    \/ KeyUp \/ KeyDown \/ KeyEsc \/ KeyTab \/ KeyCollapse \/ KeyOpen
    \/ KeyDiscard \/ KeyRefresh \/ KeyQuit

AnyKey == OtherKey \/ KeyEnter \/ KeyShortcut

\* C23: the discard command is started only with the menu open, by Enter on
\* its first option ("Discard all changes") or by the shortcut "x"; the menu
\* opens only by "d" on a selected file node with the focus on the tree; Esc,
\* Enter on Cancel and every other key start no discard; and while the menu
\* is open no key changes the tree cursor, the collapse flags or the focus.
C23_DiscardNeedsConfirmation ==
    [][/\ discards' > discards
          => /\ menuOpen /\ ~menuOpen'
             /\ discards' = discards + 1
             /\ (KeyEnter /\ menuCursor = 0) \/ KeyShortcut
       /\ OtherKey => discards' <= discards
       /\ (KeyEnter /\ menuOpen /\ menuCursor # 0) => discards' = discards
       /\ (~menuOpen /\ menuOpen')
          => /\ KeyDiscard
             /\ focused = "tree"
             /\ FileSelected
             /\ menuCursor' = 0
       /\ (menuOpen /\ AnyKey)
          => UNCHANGED <<repos, nodes, visible, cursor, focused, diffOpen>>]_vars

\* The discard command has been started from the menu, which closed.
C23_Witness ==
    /\ discards > 0
    /\ ~menuOpen
    /\ ~quit

----------------------------------------------------------------------------
\* The positions of the separators of a path.
Slashes(path) == {q \in 1..Len(path) : path[q] = "/"}

\* The directory part of a path: what precedes its last separator.
DirOf(path) ==
    IF Slashes(path) = {} THEN <<>> ELSE SubSeq(path, 1, SetMax(Slashes(path)) - 1)

\* Every directory prefix of the paths of fs.
DirPrefixes(fs) ==
    UNION {{SubSeq(fs[k].Path, 1, q - 1) : q \in Slashes(fs[k].Path)} :
           k \in 1..Len(fs)}

\* C24: for every file of a repository the node set holds exactly one file
\* node, whose parent is the directory node of the file's directory (the
\* repository node for a root-level file), every directory node hanging by
\* its segment under the node of its parent directory up to the repository
\* node; there is exactly one directory node per distinct directory prefix
\* of the files' paths and none for any other directory.
C24_EachFileOnceUnderItsChain ==
    \A r \in 0..(Len(repos) - 1) :
        LET block == BlockOf(nodes, r)
            fs == repos[r + 1].Files
            fileNodes == {i \in block : nodes[i + 1].Kind = "file"}
            dirNodes == {i \in block : nodes[i + 1].Kind = "dir"}
        IN /\ \A k \in 1..Len(fs) :
                 Cardinality({i \in fileNodes : nodes[i + 1].File = fs[k]}) = 1
           /\ Cardinality(fileNodes) = Len(fs)
           /\ \A i \in fileNodes :
                 LET p == nodes[i + 1].ParentDir
                     dir == DirOf(nodes[i + 1].File.Path)
                 IN /\ p \in block
                    /\ IF dir = <<>> THEN nodes[p + 1].Kind = "repo"
                       ELSE nodes[p + 1].Kind = "dir" /\ FullDir(nodes, p) = dir
           /\ \A j \in dirNodes :
                 LET p == nodes[j + 1].ParentDir
                 IN /\ p \in block /\ p < j
                    /\ nodes[p + 1].Kind \in {"repo", "dir"}
                    /\ nodes[j + 1].DirPath # <<>>
                    /\ Slashes(nodes[j + 1].DirPath) = {}
           /\ {FullDir(nodes, j) : j \in dirNodes} = DirPrefixes(fs)
           /\ Cardinality(dirNodes) = Cardinality(DirPrefixes(fs))

\* A build from a repository with a file two directories down and no file
\* directly in the upper directory.
C24_Witness ==
    /\ Built(lastOp)
    /\ \E r \in 0..(Len(repos) - 1) :
          /\ \E k \in 1..Len(repos[r + 1].Files) :
                repos[r + 1].Files[k].Path = src_a_y
          /\ FilesIn(r, <<"s", "r", "c">>) = <<>>

----------------------------------------------------------------------------
\* The descendants of node i.
DescendantsOf(ns, i) == {j \in NodeIdx(ns) : i \in AncestorsOf(ns, j)}

\* C25: the descendants of every repository or directory node form one
\* contiguous block that starts right after the node, and the nearest
\* preceding node of smaller depth of every directory or file node is its
\* parent.
C25_SubtreeContiguity ==
    /\ \A i \in NodeIdx(nodes) :
          nodes[i + 1].Kind \in {"repo", "dir"}
             => DescendantsOf(nodes, i)
                   = (i + 1)..(i + Cardinality(DescendantsOf(nodes, i)))
    /\ \A i \in NodeIdx(nodes) :
          nodes[i + 1].Kind # "repo"
             => LET above == {j \in 0..(i - 1) : nodes[j + 1].Depth < nodes[i + 1].Depth}
                IN above # {} /\ SetMax(above) = nodes[i + 1].ParentDir

----------------------------------------------------------------------------
\* C26: after ToggleCollapse on a repository or directory node the cursor
\* offset is unchanged and the selected node is still that node, and a second
\* ToggleCollapse right after it restores the collapse flags, the visible
\* list and the cursor.
C26_ToggleKeepsSelection ==
    [][(/\ lastOp' = "toggle"
        /\ SelectedNode(TM) # -1
        /\ nodes[SelectedNode(TM) + 1].Kind \in {"repo", "dir"})
       => LET after == [nodes |-> nodes', visible |-> visible', cursor |-> cursor']
          IN /\ cursor' = cursor
             /\ SelectedNode(after) = SelectedNode(TM)
             /\ ToggleCollapseTM(after) = TM]_vars

\* ToggleCollapse has collapsed a directory below the first row that has
\* nodes beneath it.
C26_Witness ==
    /\ lastOp = "toggle"
    /\ cursor > 0
    /\ SelectedNode(TM) # -1
    /\ nodes[SelectedNode(TM) + 1].Kind = "dir"
    /\ nodes[SelectedNode(TM) + 1].Collapsed
    /\ DescendantsOf(nodes, SelectedNode(TM)) # {}
    /\ Len(visible) < Len(nodes)

----------------------------------------------------------------------------
\* C27: once Esc has closed the diff panel, the panel stays closed until
\* Enter is pressed on a file node again: the step that follows the handling
\* of Esc, before which no Enter can have been handled, does not open the
\* panel, also when a diff load requested before the Esc is still in flight.
C27_EscClosesDiffForGood ==
    [][lastOp = "esc" => ~diffOpen']_vars

----------------------------------------------------------------------------
\* C28: the focus is on the diff panel only while the diff panel is open.
C28_FocusOnDiffOnlyWhileOpen ==
    focused = "diff" => diffOpen

\* Tab has moved the focus to the open diff panel.
C28_Witness ==
    /\ focused = "diff"
    /\ diffOpen
    /\ ~menuOpen

----------------------------------------------------------------------------
\* C30: with a positive poll interval exactly one poll timer is pending in
\* every reachable state of the control loop.
C30_PollTicksNeverMultiply ==
    pollInterval > 0 => pollTimers = 1

\* A tick has been handled, with other commands in flight and the diff panel
\* open.
C30_Witness ==
    /\ pollInterval > 0
    /\ lastOp = "pollTick"
    /\ NumPasses >= 2
    /\ diffOpen

----------------------------------------------------------------------------
\* C29: the path of every emitted record is the complete path of its entry,
\* also when the path contains spaces, never just the last token of the line
\* (stated for ordinary and untracked entries; the path of a rename entry is
\* C9's).
C29_CompletePathWithSpaces ==
    \A k \in 1..Len(emitted) :
        out[k].tag \in {"ordinary", "untracked"} =>
            \A j \in 1..Len(emitted[k]) : emitted[k][j].Path = out[k].path

====
